---- MODULE Spec2Model ----
(***************************************************************************)
(* Subscription checkout flow of praxis-bilde.                             *)
(*                                                                         *)
(* Two components are modelled from src/src/pages/SubscriptionPage.tsx:    *)
(*   - the page (SubscriptionPage / handleSubscribe, lines 10-62, 165-168) *)
(*   - the edge function (serve handler, lines 210-361) together with the  *)
(*     payment provider and the two datastore tables it writes.            *)
(*                                                                         *)
(* Every handler invocation is a record of the bag inv; the handler        *)
(* advances one await at a time, so invocations interleave at exactly the  *)
(* points where the code awaits the provider or the datastore.             *)
(***************************************************************************)
EXTENDS Integers, Sequences, FiniteSets, Bags

\* ---------------------------------------------------------------- bounds
\* Total number of handler invocations (from the page and from any other caller).
MaxInv == 2

\* ------------------------------------------------------------- value sets
NoUser == "none"
Users == {"u1", "u2"}

\* A billing id is the provider's index of the billing instance; 0 = no id.
NoBill == 0
\* A URL is a number: 0 = absent (undefined), PageUrl = the page itself,
\* PayUrl(b) = the provider's checkout page of billing instance b.
NoUrl == 0
PageUrl == 1
PayUrl(b) == 100 + b

\* An amount is the decimal number of the JSON body, in thousandths: 9900 is
\* 9.90 and 9905 is 9.905. The page always sends 9.90 (line 39).
PageAmount == 9900
Amounts == {PageAmount}
\* amount absent from the body (undefined).
NoAmount == -1
\* Math.round(undefined * 100)
NaN == -1

\* Request bodies: unparsable text, or a JSON object. user_id = NoUser and
\* amount = NoAmount are absent keys; hasUserData, hasName, hasEmail, hasCpf
\* and hasDescription tell whether user_data, user_data.name, user_data.email,
\* user_data.cpf and description are there.
Body(user_id, hasUserData, hasName, hasEmail, hasCpf, amount, hasDescription) ==
    [parsable |-> TRUE, user_id |-> user_id, hasUserData |-> hasUserData,
     hasName |-> hasUserData /\ hasName, hasEmail |-> hasUserData /\ hasEmail,
     hasCpf |-> hasUserData /\ hasCpf, amount |-> amount,
     hasDescription |-> hasDescription]

\* A body with every field of BillingRequest.
FullBody(user_id, amount) == Body(user_id, TRUE, TRUE, TRUE, TRUE, amount, TRUE)

NoBody ==
    [parsable |-> FALSE, user_id |-> NoUser, hasUserData |-> FALSE,
     hasName |-> FALSE, hasEmail |-> FALSE, hasCpf |-> FALSE, amount |-> NoAmount,
     hasDescription |-> FALSE]

Bodies ==
    {Body(u, d, TRUE, TRUE, TRUE, a, TRUE) : u \in Users, d \in BOOLEAN, a \in Amounts}
    \cup {NoBody}

\* The requests a caller other than the page sends.
Requests ==
    [method : {"POST"}, body : Bodies]
    \cup [method : {"OPTIONS", "GET"}, body : {NoBody, FullBody("u1", PageAmount)}]

\* Non-success statuses the provider answers with.
ProviderFailStatuses == {402}
\* Messages of the datastore's errors (PostgrestError.message).
DbErrorMessages == {"permission denied for table"}

VARIABLES
    user,           \* useAuth().user of the page: a user id or NoUser
    isLoading,      \* useState(false), line 11
    toasts,         \* number of toast.error notifications shown
    route,          \* react-router location of the page
    href,           \* window.location.href
    inv,            \* the bag of handler invocations (the handler is stateless)
    bills,          \* billing instances the provider created
    user_profiles,  \* table user_profiles: a set of rows
    pagamentos,     \* table pagamentos, append only
    upserts         \* history: the <<user_id, assinatura_id>> upserts committed

vars == <<user, isLoading, toasts, route, href,
          inv, bills, user_profiles, pagamentos, upserts>>

pageVars == <<user, isLoading, toasts, route, href>>
storeVars == <<bills, user_profiles, pagamentos, upserts>>

\* ------------------------------------------------------------- responses
corsHeaders == {"Access-Control-Allow-Origin", "Access-Control-Allow-Headers"}

JsonHeaders == corsHeaders \cup {"Content-Type"}

\* A response: status, headers and body. kind is "null" (no body), "text" or
\* "json"; the other fields are the keys of a JSON body (FALSE / 0 / "" = absent).
Response(status, headers, kind, success, billing_id, redirect_url, error, message) ==
    [status |-> status, headers |-> headers, kind |-> kind, success |-> success,
     billing_id |-> billing_id, redirect_url |-> redirect_url,
     error |-> error, message |-> message]

NoResponse == Response(0, {}, "none", FALSE, NoBill, NoUrl, "", "")

\* Mutant: the preflight answer without the cross-origin headers.
PreflightResponse_NoCors == Response(200, {}, "null", FALSE, NoBill, NoUrl, "", "")

\* new Response(null, { headers: corsHeaders }): the status defaults to 200.
PreflightResponse == Response(200, corsHeaders, "null", FALSE, NoBill, NoUrl, "", "")

MethodNotAllowedResponse ==
    Response(405, corsHeaders, "text", FALSE, NoBill, NoUrl, "", "Method not allowed")

\* JSON.stringify drops a key whose value is undefined: an absent data.url
\* gives a body without redirect_url.
SuccessResponse(billing_id, url) ==
    Response(200, JsonHeaders, "json", TRUE, billing_id, url, "",
             "Cobranca criada com sucesso")

\* Mutant: the catch block answers without a status, which defaults to 200.
ErrorResponse_NoStatus(message) ==
    Response(200, JsonHeaders, "json", FALSE, NoBill, NoUrl,
             "Falha ao criar cobranca", message)

\* The catch block: error.message is the message of whatever was thrown.
ErrorResponse(message) ==
    Response(500, JsonHeaders, "json", FALSE, NoBill, NoUrl,
             "Falha ao criar cobranca", message)

\* `AbacatePay API error: ${abacatePayResponse.status}`
ProviderErrorMessage(status) ==
    IF status = 402 THEN "AbacatePay API error: 402"
    ELSE "AbacatePay API error: 500"

\* ------------------------------------------- IEEE 754 double arithmetic
\* A double is [bits, exp]: a sequence of bits, most significant first, of at
\* most 53 significant bits, standing for the number bits * 2^exp.
RECURSIVE NatBits(_)
NatBits(n) == IF n = 0 THEN <<>> ELSE Append(NatBits(n \div 2), n % 2)

RECURSIVE BitsNat(_)
BitsNat(bits) ==
    IF bits = <<>> THEN 0
    ELSE 2 * BitsNat(SubSeq(bits, 1, Len(bits) - 1)) + bits[Len(bits)]

\* bits without its leading zeros.
StripZeros(bits) ==
    LET ones == {i \in 1..Len(bits) : bits[i] = 1}
    IN  IF ones = {} THEN <<>>
        ELSE SubSeq(bits, CHOOSE i \in ones : \A j \in ones : i <= j, Len(bits))

\* bits + 1: the last 0 becomes 1 and the 1s after it become 0.
Increment(bits) ==
    LET zeros == {i \in 1..Len(bits) : bits[i] = 0}
        p == CHOOSE i \in zeros : \A j \in zeros : i >= j
    IN  IF zeros = {} THEN <<1>> \o [i \in 1..Len(bits) |-> 0]
        ELSE [i \in 1..Len(bits) |-> IF i < p THEN bits[i] ELSE IF i = p THEN 1 ELSE 0]

\* bits as a sequence of limbs in base 2^15, and back.
PadLeft(bits, n) == [i \in 1..(n - Len(bits)) |-> 0] \o bits

Limbs(bits) ==
    LET m == (Len(bits) + 14) \div 15
        p == PadLeft(bits, 15 * m)
    IN  [j \in 1..m |-> BitsNat(SubSeq(p, 15 * (j - 1) + 1, 15 * j))]

RECURSIVE LimbBits(_)
LimbBits(limbs) ==
    IF limbs = <<>> THEN <<>>
    ELSE PadLeft(NatBits(limbs[1]), 15) \o LimbBits(Tail(limbs))

\* limbs * m + carry, for a small m, the last limb being the least significant.
RECURSIVE TimesLimbs(_, _, _)
TimesLimbs(limbs, m, carry) ==
    IF limbs = <<>> THEN (IF carry = 0 THEN <<>> ELSE <<carry>>)
    ELSE LET t == limbs[Len(limbs)] * m + carry
         IN  TimesLimbs(SubSeq(limbs, 1, Len(limbs) - 1), m, t \div 32768)
                 \o <<t % 32768>>

\* The first k limbs (15 bits each) of the binary fraction rem / den, and
\* what is left of rem after them.
RECURSIVE QuotientLimbs(_, _, _)
QuotientLimbs(rem, den, k) ==
    IF k = 0 THEN <<>>
    ELSE <<(32768 * rem) \div den>> \o QuotientLimbs((32768 * rem) % den, den, k - 1)

RECURSIVE QuotientRest(_, _, _)
QuotientRest(rem, den, k) ==
    IF k = 0 THEN rem ELSE QuotientRest((32768 * rem) % den, den, k - 1)

\* Round to nearest, ties to even, to 53 significant bits; sticky tells that
\* the exact number is a little more than bits * 2^exp.
RoundToDouble(bits, exp, sticky) ==
    LET b == StripZeros(bits)
        n == Len(b)
    IN  IF n <= 53 THEN [bits |-> b, exp |-> exp]
        ELSE LET keep == SubSeq(b, 1, 53)
                 more == sticky \/ \E i \in 55..n : b[i] = 1
                 up == b[54] = 1 /\ (more \/ keep[53] = 1)
             IN  [bits |-> IF up THEN Increment(keep) ELSE keep,
                  exp |-> exp + (n - 53)]

\* The double a JSON number with three decimals parses to (amount is in
\* thousandths): the double nearest to amount / 1000.
ToDouble(amount) ==
    RoundToDouble(NatBits(amount \div 1000)
                      \o LimbBits(QuotientLimbs(amount % 1000, 1000, 5)),
                  -75, QuotientRest(amount % 1000, 1000, 5) # 0)

\* x * 100 in double arithmetic: the exact product, rounded once.
Times100(x) ==
    RoundToDouble(LimbBits(TimesLimbs(Limbs(x.bits), 100, 0)), x.exp, FALSE)

\* Math.round of a double x >= 0 below 2^31: the integer nearest to x, a tie
\* going up.
MathRound(x) ==
    LET n == Len(x.bits)
        k == n + x.exp
    IN  IF x.exp >= 0 THEN BitsNat(x.bits \o [i \in 1..x.exp |-> 0])
        ELSE IF k < 0 THEN 0
        ELSE BitsNat(SubSeq(x.bits, 1, k)) + (IF k + 1 <= n THEN x.bits[k + 1] ELSE 0)

\* Math.round(amount * 100), line 271.
MinorUnitsOf(amount) == MathRound(Times100(ToDouble(amount)))

\* The amounts whose price is tabulated (9.880 to 10.019).
PricedAmounts == 9880..10019
PriceTable == [a \in PricedAmounts |-> MinorUnitsOf(a)]

\* price: Math.round(amount * 100), line 271; NaN when amount is undefined.
MinorUnits(amount) ==
    IF amount = NoAmount THEN NaN
    ELSE IF amount \in PricedAmounts THEN PriceTable[amount]
    ELSE MinorUnitsOf(amount)

\* ---------------------------------------------------------- provider payload
\* `${user_id}` of an undefined user_id is the text undefined.
Text(user_id) == IF user_id = NoUser THEN "undefined" ELSE user_id

\* Mutant: the externalId does not carry the user_id.
ExternalId_Fixed(user_id) == "praxis-monthly"

\* externalId: `praxis-monthly-${user_id}`, line 267.
ExternalId(user_id) == "praxis-monthly-" \o Text(user_id)

\* A field of the payload that is copied from the body: its value, or
\* undefined when the body does not have it (JSON.stringify then drops it).
Copied(present) == IF present THEN "value" ELSE "undefined"

\* billingData, lines 257-273.
BillingData(body) ==
    [frequency |-> "MONTHLY",
     methods |-> <<"PIX">>,
     customer |-> [name |-> Copied(body.hasName), email |-> Copied(body.hasEmail),
                   taxId |-> Copied(body.hasCpf), cellphone |-> ""],
     products |-> <<[externalId |-> ExternalId(body.user_id),
                     name |-> "PRAXIS - Assinatura Mensal",
                     description |-> Copied(body.hasDescription),
                     quantity |-> 1,
                     price |-> MinorUnits(body.amount)]>>]

\* No payload built (yet).
NoBillingData ==
    [frequency |-> "", methods |-> <<>>,
     customer |-> [name |-> "", email |-> "", taxId |-> "", cellphone |-> ""],
     products |-> <<>>]

\* ----------------------------------------------------------- datastore rows
\* What a reader of user_profiles finds for a user without a row.
NoRow == [present |-> FALSE, assinatura_id |-> NoBill, assinatura_ativa |-> FALSE]

\* A row written before this flow ran, by the sign-up or the confirmation path.
OldRow(user_id, ativa) ==
    [user_id |-> user_id, assinatura_id |-> NoBill, assinatura_ativa |-> ativa]

\* Mutant: the upsert activates the subscription.
ProfileRow_Active(user_id, billing_id) ==
    [user_id |-> user_id, assinatura_id |-> billing_id, assinatura_ativa |-> TRUE]

\* Mutant: the row of the upsert without its user_id.
ProfileRow_NoUserId(user_id, billing_id) ==
    [user_id |-> NoUser, assinatura_id |-> billing_id, assinatura_ativa |-> FALSE]

\* The row of the upsert, lines 301-308 (the timestamps are left out).
ProfileRow(user_id, billing_id) ==
    [user_id |-> user_id, assinatura_id |-> billing_id, assinatura_ativa |-> FALSE]

\* The rows of user_profiles with this user_id.
RowsOf(user_id) == {x \in user_profiles : x.user_id = user_id}

\* The user's row as a reader finds it (NoRow when there is none).
Profile(user_id) ==
    IF RowsOf(user_id) = {} THEN NoRow
    ELSE LET x == CHOOSE y \in RowsOf(user_id) : TRUE IN
         [present |-> TRUE, assinatura_id |-> x.assinatura_id,
          assinatura_ativa |-> x.assinatura_ativa]

\* The datastore's upsert on a table keyed by user_id: the row replaces the
\* row of the same user_id, if there is one.
UpsertByKey(table, row) == {x \in table : x.user_id # row.user_id} \cup {row}

\* Mutant: the payment row without the provider's billing id.
PaymentRow_NoBillingId(user_id, billing_id, amount) ==
    [user_id |-> user_id, assinatura_id |-> NoBill, efi_charge_id |-> NoBill,
     valor |-> amount, metodo_pagamento |-> "pix", status |-> "pending"]

\* The row of the insert, lines 318-325.
PaymentRow(user_id, billing_id, amount) ==
    [user_id |-> user_id, assinatura_id |-> billing_id, efi_charge_id |-> billing_id,
     valor |-> amount, metodo_pagamento |-> "pix", status |-> "pending"]

\* ------------------------------------------------------ handler invocations
\* fetch is the state of the page's fetch promise (line 26) for the request:
\* "pending", "resolved" or "rejected", and "none" for another caller's request.
\* parsed: req.json() was called; providerCalls: fetches to the provider;
\* providerStatus: the status the provider answered with (0 = no answer);
\* bill: abacatePayResult.data.id; dbWrites: datastore writes committed;
\* billingData: the payload sent to the provider.
NewInvocation(fetch, method, body) ==
    [fetch |-> fetch, method |-> method, body |-> body, pc |-> "sent",
     parsed |-> FALSE, providerCalls |-> 0, providerStatus |-> 0,
     bill |-> NoBill, dbWrites |-> 0, billingData |-> NoBillingData,
     failedAt |-> "none", response |-> NoResponse]

Invocations == BagToSet(inv)

\* The number of invocations of the bag that are in the set S.
NumberIn(S) == BagCardinality([r \in Invocations \cap S |-> inv[r]])

\* A new invocation r enters; invocation r becomes r2.
Enter(r) == inv' = inv (+) SetToBag({r})
Becomes(r, r2) == inv' = (inv (-) SetToBag({r})) (+) SetToBag({r2})

\* The catch block, lines 347-360: invocation r after step threw an error
\* with this message.
Catch(r, message, step) ==
    [r EXCEPT !.pc = "done", !.response = ErrorResponse(message), !.failedAt = step]

\* Mutant: without the 405 gate, any method other than OPTIONS is served as POST.
Serve_NoMethodGate(r) ==
    IF r.method = "OPTIONS"
      THEN [r EXCEPT !.pc = "done", !.response = PreflightResponse]
    ELSE IF ~r.body.parsable
      THEN Catch([r EXCEPT !.parsed = TRUE], "SyntaxError", "parse")
    ELSE IF ~r.body.hasUserData
      THEN Catch([r EXCEPT !.parsed = TRUE], "TypeError", "build")
    ELSE [r EXCEPT !.pc = "awaitProvider", !.parsed = TRUE,
                   !.billingData = BillingData(r.body), !.providerCalls = @ + 1]

\* Mutant: the handler validates the body and answers 500 when a field of
\* BillingRequest is missing.
Serve_ValidatesBody(r) ==
    IF r.method = "OPTIONS"
      THEN [r EXCEPT !.pc = "done", !.response = PreflightResponse]
    ELSE IF r.method # "POST"
      THEN [r EXCEPT !.pc = "done", !.response = MethodNotAllowedResponse]
    ELSE IF ~r.body.parsable
      THEN Catch([r EXCEPT !.parsed = TRUE], "SyntaxError", "parse")
    ELSE IF r.body # FullBody(r.body.user_id, r.body.amount)
              \/ r.body.user_id = NoUser \/ r.body.amount = NoAmount
      THEN Catch([r EXCEPT !.parsed = TRUE], "TypeError", "build")
    ELSE [r EXCEPT !.pc = "awaitProvider", !.parsed = TRUE,
                   !.billingData = BillingData(r.body), !.providerCalls = @ + 1]

\* Lines 226-283: the method gate, req.json(), billingData, and the provider
\* fetch being issued, for the request r = NewInvocation(...). Nothing shared
\* is read or written on the way, so the request's arrival and these lines
\* are one step.
Serve(r) ==
    IF r.method = "OPTIONS"
      THEN [r EXCEPT !.pc = "done", !.response = PreflightResponse]
    ELSE IF r.method # "POST"
      THEN [r EXCEPT !.pc = "done", !.response = MethodNotAllowedResponse]
    ELSE IF ~r.body.parsable
      THEN Catch([r EXCEPT !.parsed = TRUE], "SyntaxError", "parse")
    ELSE IF ~r.body.hasUserData
      THEN Catch([r EXCEPT !.parsed = TRUE], "TypeError", "build")
    ELSE [r EXCEPT !.pc = "awaitProvider", !.parsed = TRUE,
                   !.billingData = BillingData(r.body), !.providerCalls = @ + 1]

\* Any caller other than the page sends a request to the function's URL.
ExternalRequest(method, body) ==
    /\ BagCardinality(inv) < MaxInv
    /\ Enter(Serve(NewInvocation("none", method, body)))
    /\ UNCHANGED <<pageVars, storeVars>>

\* Lines 276-283: the fetch to the provider rejects (network failure).
ProviderReject(r) ==
    /\ r.pc = "awaitProvider"
    /\ Becomes(r, Catch(r, "fetch failed", "provider"))
    /\ UNCHANGED <<pageVars, storeVars>>

\* Mutant: abacatePayResponse.ok is not tested, the handler goes on to the upsert.
ProviderFail_NotChecked(r, status) ==
    /\ r.pc = "awaitProvider"
    /\ Becomes(r, [r EXCEPT !.pc = "awaitUpsert", !.providerStatus = status])
    /\ UNCHANGED <<pageVars, storeVars>>

\* Lines 285-289: the provider answers with a non-success status.
ProviderFail(r, status) ==
    /\ r.pc = "awaitProvider"
    /\ Becomes(r, Catch([r EXCEPT !.providerStatus = status],
                         ProviderErrorMessage(status), "provider"))
    /\ UNCHANGED <<pageVars, storeVars>>

\* Lines 291-292: a success status whose body has no data object, so that
\* abacatePayResult.data.id throws.
ProviderMalformed(r) ==
    /\ r.pc = "awaitProvider"
    /\ Becomes(r, Catch([r EXCEPT !.providerStatus = 200], "TypeError", "provider"))
    /\ UNCHANGED <<pageVars, storeVars>>

\* Lines 276-308: the provider creates a billing instance and answers with
\* its id and (hasUrl) its url; the handler goes on to issue the upsert.
ProviderOk(r, hasUrl) ==
    /\ r.pc = "awaitProvider"
    /\ LET b == Len(bills) + 1 IN
        /\ bills' = Append(bills, [user_id |-> r.body.user_id,
                                   externalId |-> r.billingData.products[1].externalId,
                                   price |-> r.billingData.products[1].price,
                                   url |-> IF hasUrl THEN PayUrl(b) ELSE NoUrl])
        /\ Becomes(r, [r EXCEPT !.pc = "awaitUpsert", !.providerStatus = 200,
                                 !.bill = b])
    /\ UNCHANGED <<pageVars, user_profiles, pagamentos, upserts>>

\* Mutant: updateProfileError is not tested, the handler goes on to the insert.
Upsert_ErrorIgnored(r, error) ==
    /\ r.pc = "awaitUpsert"
    /\ IF error = ""
         THEN /\ user_profiles' = UpsertByKey(user_profiles,
                                                ProfileRow(r.body.user_id, r.bill))
              /\ upserts' = upserts \cup {<<r.body.user_id, r.bill>>}
              /\ Becomes(r, [r EXCEPT !.pc = "awaitInsert", !.dbWrites = @ + 1])
         ELSE /\ Becomes(r, [r EXCEPT !.pc = "awaitInsert"])
              /\ UNCHANGED <<user_profiles, upserts>>
    /\ UNCHANGED <<pageVars, bills, pagamentos>>

\* Lines 299-313 and on to the insert being issued; error = "" is error: null.
Upsert(r, error) ==
    /\ r.pc = "awaitUpsert"
    /\ IF error = ""
         THEN /\ user_profiles' = UpsertByKey(user_profiles,
                                                ProfileRow(r.body.user_id, r.bill))
              /\ upserts' = upserts \cup {<<r.body.user_id, r.bill>>}
              /\ Becomes(r, [r EXCEPT !.pc = "awaitInsert", !.dbWrites = @ + 1])
         ELSE /\ Becomes(r, Catch(r, error, "upsert"))
              /\ UNCHANGED <<user_profiles, upserts>>
    /\ UNCHANGED <<pageVars, bills, pagamentos>>

\* Mutant: insertPaymentError is not tested, a failed insert answers 200.
Insert_ErrorIgnored(r, error) ==
    /\ r.pc = "awaitInsert"
    /\ IF error = ""
         THEN pagamentos' = Append(pagamentos,
                  PaymentRow(r.body.user_id, r.bill, r.body.amount))
         ELSE UNCHANGED pagamentos
    /\ Becomes(r, [r EXCEPT !.pc = "done", !.dbWrites = IF error = "" THEN @ + 1 ELSE @,
                     !.response = SuccessResponse(r.bill, bills[r.bill].url)])
    /\ UNCHANGED <<pageVars, bills, user_profiles, upserts>>

\* Mutant: the write to pagamentos replaces what the table holds.
Insert_Replaces(r, error) ==
    /\ r.pc = "awaitInsert"
    /\ IF error = ""
         THEN /\ pagamentos' = <<PaymentRow(r.body.user_id, r.bill, r.body.amount)>>
              /\ Becomes(r, [r EXCEPT !.pc = "done", !.dbWrites = @ + 1,
                               !.response = SuccessResponse(r.bill, bills[r.bill].url)])
         ELSE /\ Becomes(r, Catch(r, error, "insert"))
              /\ UNCHANGED pagamentos
    /\ UNCHANGED <<pageVars, bills, user_profiles, upserts>>

\* Lines 316-345: the insert and the success response.
Insert(r, error) ==
    /\ r.pc = "awaitInsert"
    /\ IF error = ""
         THEN /\ pagamentos' = Append(pagamentos,
                    PaymentRow(r.body.user_id, r.bill, r.body.amount))
              /\ Becomes(r, [r EXCEPT !.pc = "done", !.dbWrites = @ + 1,
                               !.response = SuccessResponse(r.bill, bills[r.bill].url)])
         ELSE /\ Becomes(r, Catch(r, error, "insert"))
              /\ UNCHANGED pagamentos
    /\ UNCHANGED <<pageVars, bills, user_profiles, upserts>>

\* ------------------------------------------------------------------ page
\* The number of requests whose fetch the page still awaits.
PendingFetches == NumberIn({r \in Invocations : r.fetch = "pending"})

\* Mutant: the button is never disabled.
ButtonDisabled_Never == FALSE

\* <Button disabled={isLoading}>, line 167.
ButtonDisabled == isLoading

\* The body of the page's request, lines 32-41.
\* name and cpf always have a value, by their fallbacks (lines 35 and 37).
PageBody == FullBody(user, PageAmount)

\* Mutant: the return of line 19 is missing, so lines 22-42 run as well.
SubscribeUnauthenticated_NoReturn ==
    /\ BagCardinality(inv) < MaxInv
    /\ toasts' = toasts + 1
    /\ route' = "/auth/login"
    /\ isLoading' = TRUE
    /\ Enter(Serve(NewInvocation("pending", "POST", PageBody)))
    /\ UNCHANGED href

\* Lines 16-20: no user.
SubscribeUnauthenticated ==
    /\ toasts' = toasts + 1
    /\ route' = "/auth/login"
    /\ UNCHANGED <<isLoading, href, inv>>

\* Lines 22-42: setIsLoading(true) and the fetch.
SubscribeAuthenticated ==
    /\ BagCardinality(inv) < MaxInv
    /\ isLoading' = TRUE
    /\ Enter(Serve(NewInvocation("pending", "POST", PageBody)))
    /\ UNCHANGED <<toasts, route, href>>

\* A click on the subscribe button runs handleSubscribe up to its first await.
Click ==
    /\ route = "/subscription"
    /\ ~ButtonDisabled
    /\ IF user = NoUser THEN SubscribeUnauthenticated ELSE SubscribeAuthenticated
    /\ UNCHANGED <<user, storeVars>>

\* response.ok
ResponseOk(r) == r.status >= 200 /\ r.status <= 299

\* Mutant: line 50 tests data.redirect_url alone.
ShouldRedirect_SuccessNotTested(r) ==
    ResponseOk(r) /\ r.kind = "json" /\ r.redirect_url # NoUrl

\* Line 50: data.success && data.redirect_url, after response.json() (which
\* throws unless the body is JSON).
ShouldRedirect(r) ==
    ResponseOk(r) /\ r.kind = "json" /\ r.success /\ r.redirect_url # NoUrl

\* Lines 56-58: the catch block.
SubscribeFailed ==
    /\ toasts' = toasts + 1
    /\ UNCHANGED <<href, route>>

\* Mutant: no finally block, isLoading is cleared on the success path only.
OnResponse_NoFinally(r) ==
    IF ShouldRedirect(r)
      THEN /\ href' = r.redirect_url
           /\ UNCHANGED <<toasts, route>>
           /\ isLoading' = FALSE
      ELSE /\ SubscribeFailed
           /\ UNCHANGED isLoading

\* Lines 44-61, once the fetch has resolved with response r.
OnResponse(r) ==
    /\ IF ShouldRedirect(r)
         THEN /\ href' = r.redirect_url
              /\ UNCHANGED <<toasts, route>>
         ELSE SubscribeFailed
    /\ isLoading' = FALSE

\* The fetch of request r resolves with the response the server gave.
PageSettle(r) ==
    /\ r.fetch = "pending"
    /\ r.pc = "done"
    /\ OnResponse(r.response)
    /\ Becomes(r, [r EXCEPT !.fetch = "resolved"])
    /\ UNCHANGED <<user, storeVars>>

\* Mutant: the catch block sends the request again.
FetchReject_Retry(r) ==
    /\ r.fetch = "pending"
    /\ BagCardinality(inv) < MaxInv
    /\ SubscribeFailed
    /\ UNCHANGED isLoading
    /\ inv' = ((inv (-) SetToBag({r})) (+) SetToBag({[r EXCEPT !.fetch = "rejected"]}))
                (+) SetToBag({Serve(NewInvocation("pending", "POST", PageBody))})
    /\ UNCHANGED <<user, storeVars>>

\* The fetch of request r rejects (network failure), whatever the server did.
FetchReject(r) ==
    /\ r.fetch = "pending"
    /\ SubscribeFailed
    /\ isLoading' = FALSE
    /\ Becomes(r, [r EXCEPT !.fetch = "rejected"])
    /\ UNCHANGED <<user, storeVars>>

\* ------------------------------------------------------------ specification
\* The rows user_profiles holds before the flow runs.
InitialProfiles ==
    {{}, {OldRow(u, FALSE) : u \in Users}, {OldRow(u, TRUE) : u \in Users}}

Init ==
    /\ user \in {NoUser, "u1"}
    /\ isLoading = FALSE
    /\ toasts = 0
    /\ route = "/subscription"
    /\ href = PageUrl
    /\ inv = EmptyBag
    /\ bills = <<>>
    /\ user_profiles \in InitialProfiles
    /\ pagamentos = <<>>
    /\ upserts = {}

Next ==
    \/ Click
    \/ \E q \in Requests : ExternalRequest(q.method, q.body)
    \/ \E r \in Invocations : ProviderReject(r)
    \/ \E r \in Invocations, s \in ProviderFailStatuses : ProviderFail(r, s)
    \/ \E r \in Invocations : ProviderMalformed(r)
    \/ \E r \in Invocations, hasUrl \in BOOLEAN : ProviderOk(r, hasUrl)
    \/ \E r \in Invocations, e \in {""} \cup DbErrorMessages : Upsert(r, e)
    \/ \E r \in Invocations, e \in {""} \cup DbErrorMessages : Insert(r, e)
    \/ \E r \in Invocations : PageSettle(r)
    \/ \E r \in Invocations : FetchReject(r)

Spec == Init /\ [][Next]_vars

\* The page against an arbitrary server: the responses a server can give to
\* the page's request, whatever runs behind the URL of line 26.
ServerResponses ==
    {Response(st, JsonHeaders, k, su, NoBill, u, "", "") :
        st \in {200, 500}, k \in {"json", "text"}, su \in BOOLEAN,
        u \in {NoUrl, PayUrl(1)}}

ArbitraryServer(r, resp) ==
    /\ r.fetch = "pending"
    /\ r.pc # "done"
    /\ Becomes(r, [r EXCEPT !.pc = "done", !.response = resp])
    /\ UNCHANGED <<pageVars, storeVars>>

NextPage ==
    \/ Click
    \/ \E r \in Invocations, resp \in ServerResponses : ArbitraryServer(r, resp)
    \/ \E r \in Invocations : PageSettle(r)
    \/ \E r \in Invocations : FetchReject(r)

SpecPage == Init /\ [][NextPage]_vars

\* The page when every request it sends eventually settles: the fetch of
\* line 26 resolves or rejects.
SpecPageFair ==
    SpecPage /\ WF_vars(\E r \in Invocations : PageSettle(r) \/ FetchReject(r))

\* The handler serving one POST request with any body: each field of
\* BillingRequest present or absent, and every amount of PricedAmounts.
ProbeBodies ==
    {Body(u, d, n, e, c, a, ds) :
        u \in {"u1", NoUser}, d \in BOOLEAN, n \in BOOLEAN, e \in BOOLEAN,
        c \in BOOLEAN, a \in {PageAmount, NoAmount}, ds \in BOOLEAN}
    \cup {FullBody("u1", a) : a \in PricedAmounts}
    \cup {NoBody}

NextRequest ==
    \/ \E body \in ProbeBodies : inv = EmptyBag /\ ExternalRequest("POST", body)
    \/ \E r \in Invocations : ProviderReject(r)
    \/ \E r \in Invocations, s \in ProviderFailStatuses : ProviderFail(r, s)
    \/ \E r \in Invocations : ProviderMalformed(r)
    \/ \E r \in Invocations, hasUrl \in BOOLEAN : ProviderOk(r, hasUrl)
    \/ \E r \in Invocations, e \in {""} \cup DbErrorMessages : Upsert(r, e)
    \/ \E r \in Invocations, e \in {""} \cup DbErrorMessages : Insert(r, e)

SpecRequest == Init /\ [][NextRequest]_vars

\* ================================================================== claims
IsPost(r) == r.method = "POST"
Done(r) == r.pc = "done"

\* A PaymentRecord of this user with this billing id exists.
HasPayment(user_id, billing_id) ==
    \E k \in 1..Len(pagamentos) :
        /\ pagamentos[k].user_id = user_id
        /\ pagamentos[k].assinatura_id = billing_id

C2_ProviderFailureWritesNothing ==
    \A r \in Invocations :
        (IsPost(r) /\ Done(r) /\ r.providerStatus # 0 /\ ~(r.providerStatus \in 200..299)) =>
            /\ r.dbWrites = 0
            /\ r.bill = NoBill
            /\ r.response.status = 500
            /\ \A u \in Users : <<u, r.bill>> \notin upserts

C2_Witness ==
    \E r \in Invocations :
        IsPost(r) /\ Done(r) /\ r.providerStatus = 402 /\ r.response.status = 500

\* ---- C3
\* C3: no step writes assinatura_ativa = true: a user_profiles row that a step
\* changes has assinatura_ativa = false afterwards, and no step turns a row's
\* assinatura_ativa from false to true.
C3_NeverActivates ==
    [][\A u \in Users :
        /\ Profile(u)' # Profile(u) => ~Profile(u)'.assinatura_ativa
        /\ ~Profile(u).assinatura_ativa => ~Profile(u)'.assinatura_ativa
      ]_vars

C3_Witness ==
    \E u \in Users : Profile(u).present /\ Profile(u).assinatura_id # NoBill

\* ---- C4
\* C4: with no authenticated user the page never sets isLoading, never issues
\* a request and never leaves for the provider; handleSubscribe has shown one
\* error notification exactly when it has navigated to the login route.
C4_UnauthenticatedNoRequest ==
    (user = NoUser) =>
        /\ ~isLoading
        /\ NumberIn({r \in Invocations : r.fetch # "none"}) = 0
        /\ href = PageUrl
        /\ \/ toasts = 0 /\ route = "/subscription"
           \/ toasts = 1 /\ route = "/auth/login"

C4_Witness == user = NoUser /\ toasts = 1 /\ route = "/auth/login"

\* ---- C5
\* The step settles the fetch of request r as how ("resolved" / "rejected").
Settles(r, how) ==
    /\ r.fetch = "pending"
    /\ inv' = (inv (-) SetToBag({r})) (+) SetToBag({[r EXCEPT !.fetch = how]})

\* Outcomes (a), (b), (c) of a resolved fetch.
FailureOutcome(resp) ==
    \/ ~(resp.status \in 200..299)
    \/ ~resp.success
    \/ resp.redirect_url = NoUrl

\* C5: a fetch that rejects, or resolves with a non-success status, without a
\* truthy success flag or without redirect_url, shows exactly one error
\* notification and changes neither window.location.href nor the route.
C5_FailuresUniform ==
    [][\A r \in Invocations :
        (Settles(r, "rejected") \/ (Settles(r, "resolved") /\ FailureOutcome(r.response)))
            => (toasts' = toasts + 1 /\ href' = href /\ route' = route)
      ]_vars

C5_Witness ==
    \E r1, r2 \in Invocations :
        /\ r1.fetch = "rejected"
        /\ r2.fetch = "resolved" /\ r2.response.status = 200
        /\ r2.response.kind = "json" /\ ~r2.response.success
        /\ r2.response.redirect_url # NoUrl
        /\ toasts = 2 /\ href = PageUrl /\ route = "/subscription"

\* ---- C6
\* C6: whenever the browser has left for a URL u, a request of the page was
\* answered 200 with success = true and redirect_url = u, u is the url of the
\* billing instance that invocation created, and the SubscriptionRecord upsert
\* and the PaymentRecord of that billing instance are committed.
C6_NavigationOnlyAfterPersistence ==
    (href # PageUrl) =>
        \E r \in Invocations :
            /\ r.fetch = "resolved"
            /\ r.response.status = 200 /\ r.response.success
            /\ r.response.redirect_url = href
            /\ r.bill \in 1..Len(bills)
            /\ bills[r.bill].url = href
            /\ <<r.body.user_id, r.bill>> \in upserts
            /\ HasPayment(r.body.user_id, r.bill)

C6_Witness == href # PageUrl

\* ---- C7
\* C7: an invocation whose method is neither POST nor OPTIONS is answered 405;
\* req.json() is not called, the provider is not called, nothing is written.
C7_MethodNotAllowed ==
    \A r \in Invocations :
        (r.method \notin {"POST", "OPTIONS"}) =>
            /\ Done(r)
            /\ r.response.status = 405
            /\ ~r.parsed
            /\ r.providerCalls = 0
            /\ r.dbWrites = 0

C7_Witness ==
    \E r \in Invocations : r.method = "GET" /\ r.body.parsable /\ Done(r)

\* ---- C8
\* C8: an OPTIONS invocation is answered 200 with no body and the cross-origin
\* headers, whatever its body; req.json() is not called, the provider is not
\* called, nothing is written.
C8_Preflight ==
    \A r \in Invocations :
        (r.method = "OPTIONS") =>
            /\ Done(r)
            /\ r.response.status = 200
            /\ r.response.kind = "null"
            /\ corsHeaders \subseteq r.response.headers
            /\ ~r.parsed
            /\ r.providerCalls = 0
            /\ r.dbWrites = 0

C8_Witness ==
    /\ \E r \in Invocations : r.method = "OPTIONS" /\ r.body.parsable /\ Done(r)
    /\ \E r \in Invocations : r.method = "OPTIONS" /\ ~r.body.parsable /\ Done(r)

\* ---- C9
\* The body of a response, as the caller reads it.
ResponseBody(resp) ==
    [kind |-> resp.kind, success |-> resp.success, billing_id |-> resp.billing_id,
     redirect_url |-> resp.redirect_url, error |-> resp.error, message |-> resp.message]

\* C9 as stated: two POST invocations that failed at different steps
\* (provider call, upsert, insert) return the same status and the same body.
C9_FailureResponsesIdentical ==
    \A r1, r2 \in Invocations :
        (/\ IsPost(r1) /\ Done(r1) /\ IsPost(r2) /\ Done(r2)
         /\ r1.failedAt \in {"provider", "upsert", "insert"}
         /\ r2.failedAt \in {"provider", "upsert", "insert"}
         /\ r1.failedAt # r2.failedAt) =>
            /\ r1.response.status = r2.response.status
            /\ ResponseBody(r1.response) = ResponseBody(r2.response)

\* ---- C10
\* C10: the page never has two requests in flight, and while one is in flight
\* isLoading is true and the subscribe button is disabled.
C10_BusyGuard ==
    /\ PendingFetches <= 1
    /\ PendingFetches = 1 => (isLoading /\ ButtonDisabled)

C10_Witness ==
    /\ PendingFetches = 1
    /\ \E r \in Invocations : r.fetch \in {"resolved", "rejected"}

\* ---- C11
\* This step is the upsert of invocation r committing (error: null).
UpsertCommits(r) ==
    /\ r.pc = "awaitUpsert"
    /\ inv' = (inv (-) SetToBag({r}))
                (+) SetToBag({[r EXCEPT !.pc = "awaitInsert", !.dbWrites = @ + 1]})

PaymentsOf(b) == {k \in 1..Len(pagamentos) : pagamentos[k].assinatura_id = b}

C13_PriceIsExactRounding ==
    \A r \in Invocations :
        (r.providerCalls > 0 /\ r.body.amount # NoAmount) =>
            /\ r.billingData.products[1].price = (r.body.amount + 5) \div 10
            /\ (r.body.amount = 9900 => r.billingData.products[1].price = 990)
            /\ (r.body.amount = 9905 => r.billingData.products[1].price = 991)

\* ---- C14
\* C14 as stated: whatever fields the JSON body of a POST lacks, the handler
\* builds the provider payload and calls the provider.
C14_NoBodyRejected ==
    \A r \in Invocations :
        (IsPost(r) /\ r.body.parsable) =>
            r.providerCalls = 1 /\ r.billingData # NoBillingData

\* C14, amended: a POST body without user_data is answered 500 with no
\* provider call (user_data.name throws); with user_data present, every other
\* absent field (user_id, name, email, cpf, amount, description) leaves
\* undefined (NaN for the price) in its place of the payload, and the provider
\* is called.
C14_OnlyUserDataIsRequired ==
    \A r \in Invocations :
        (IsPost(r) /\ r.body.parsable) =>
            IF r.body.hasUserData
              THEN /\ r.providerCalls = 1
                   /\ r.failedAt \notin {"parse", "build"}
                   /\ LET c == r.billingData.customer
                          p == r.billingData.products[1]
                      IN  /\ (c.name = "undefined") <=> ~r.body.hasName
                          /\ (c.email = "undefined") <=> ~r.body.hasEmail
                          /\ (c.taxId = "undefined") <=> ~r.body.hasCpf
                          /\ (p.description = "undefined") <=> ~r.body.hasDescription
                          /\ (p.externalId = "praxis-monthly-undefined")
                                <=> r.body.user_id = NoUser
                          /\ (p.price = NaN) <=> r.body.amount = NoAmount
              ELSE /\ Done(r)
                   /\ r.response.status = 500
                   /\ r.providerCalls = 0
                   /\ r.billingData = NoBillingData

\* The provider has been called, and has created a billing instance, for a
\* body that has user_data but no user_id, name or amount.
C14_Witness ==
    \E r \in Invocations :
        /\ r.body.parsable /\ r.body.hasUserData /\ ~r.body.hasName
        /\ r.body.user_id = NoUser /\ r.body.amount = NoAmount
        /\ r.providerCalls = 1 /\ r.bill # NoBill
        /\ bills[r.bill].externalId = "praxis-monthly-undefined"
        /\ bills[r.bill].price = NaN

\* ---- C15
\* The requests the page has sent, and those of them that have settled.
PageRequests == NumberIn({r \in Invocations : r.fetch # "none"})
SettledRequests == NumberIn({r \in Invocations : r.fetch \in {"resolved", "rejected"}})

\* C15: a step sends a request of the page exactly when it is an authenticated
\* handleSubscribe starting (isLoading goes from false to true), and then it
\* sends one; a step in which a request settles, whatever the outcome, sends
\* none (no retry). So the page's requests are as many as the attempts, no
\* more than one of them is unsettled, and no invocation of the handler calls
\* the provider more than once.
C15_OneRequestPerAttempt ==
    /\ [][/\ PageRequests' \in {PageRequests, PageRequests + 1}
          /\ (PageRequests' = PageRequests + 1)
                <=> (user # NoUser /\ ~isLoading /\ isLoading')
          /\ (SettledRequests' # SettledRequests => PageRequests' = PageRequests)]_vars
    /\ [](/\ PageRequests - SettledRequests = (IF isLoading THEN 1 ELSE 0)
          /\ \A r \in Invocations : r.providerCalls <= 1)

\* Two attempts have completed, one failed and one answered 200, and the page
\* has sent two requests, each of which called the provider once.
C15_Witness ==
    /\ PageRequests = 2
    /\ SettledRequests = 2
    /\ \E r \in Invocations : r.fetch = "rejected" /\ r.providerCalls = 1
    /\ \E r \in Invocations :
        r.fetch = "resolved" /\ r.providerCalls = 1 /\ r.response.status = 200

\* ---- C16
\* C16: the externalId of user 'abc123' is 'praxis-monthly-abc123'; every
\* provider call sends 'praxis-monthly-' followed by the request's user_id,
\* and so does every billing instance created; two billing instances of the
\* same user carry the same externalId and are different instances, with
\* different payment urls.
C16_ExternalIdPerUser ==
    /\ ExternalId("abc123") = "praxis-monthly-abc123"
    /\ \A r \in Invocations :
        (r.providerCalls > 0 /\ r.body.user_id # NoUser) =>
            /\ r.billingData.products[1].externalId
                   = "praxis-monthly-" \o r.body.user_id
            /\ r.bill # NoBill =>
                   bills[r.bill].externalId = "praxis-monthly-" \o r.body.user_id
    /\ \A r1, r2 \in Invocations :
        (r1.bill # NoBill /\ r2.bill # NoBill /\ r1.body.user_id = r2.body.user_id
            /\ r1 # r2) =>
            /\ bills[r1.bill].externalId = bills[r2.bill].externalId
            /\ r1.bill # r2.bill
    /\ \A b1, b2 \in 1..Len(bills) :
        (b1 # b2 /\ bills[b1].url # NoUrl) => bills[b1].url # bills[b2].url

\* Two invocations for user u1 have each created a billing instance, with the
\* same externalId praxis-monthly-u1.
C16_Witness ==
    /\ Len(bills) = 2
    /\ bills[1].externalId = "praxis-monthly-u1"
    /\ bills[2].externalId = "praxis-monthly-u1"
    /\ \E r1, r2 \in Invocations : r1.bill = 1 /\ r2.bill = 2

\* ---- C17
\* C17: an invocation writes to the datastore only after the provider has
\* created its billing instance; an invocation whose upsert failed has
\* answered 500, committed nothing and left no PaymentRecord; one whose insert
\* failed has answered 500 with its upsert committed, and the user's record
\* still there (holding a committed billing id), and no PaymentRecord; and a
\* PaymentRecord with billing id b is only ever inserted when the upsert with
\* b for the same user was committed in an earlier step.
C17_ProviderThenUpsertThenInsert ==
    /\ [](/\ \A r \in Invocations :
                /\ (r.dbWrites > 0 \/ r.pc \in {"awaitUpsert", "awaitInsert"}) =>
                        r.providerStatus = 200 /\ r.bill \in 1..Len(bills)
                /\ r.pc = "awaitInsert" => <<r.body.user_id, r.bill>> \in upserts
                /\ r.failedAt = "upsert" =>
                        /\ r.response.status = 500
                        /\ r.dbWrites = 0
                        /\ <<r.body.user_id, r.bill>> \notin upserts
                        /\ PaymentsOf(r.bill) = {}
                /\ r.failedAt = "insert" =>
                        /\ r.response.status = 500
                        /\ r.dbWrites = 1
                        /\ <<r.body.user_id, r.bill>> \in upserts
                        /\ Profile(r.body.user_id).present
                        /\ <<r.body.user_id, Profile(r.body.user_id).assinatura_id>>
                                \in upserts
                        /\ PaymentsOf(r.bill) = {}
           /\ \A p \in upserts : p[2] \in 1..Len(bills)
           /\ \A k \in 1..Len(pagamentos) :
                <<pagamentos[k].user_id, pagamentos[k].assinatura_id>> \in upserts)
    /\ [][/\ \A k \in (Len(pagamentos) + 1)..Len(pagamentos') :
                <<pagamentos'[k].user_id, pagamentos'[k].assinatura_id>> \in upserts
          /\ \A p \in upserts' \ upserts : p[2] \in 1..Len(bills)]_vars

\* One invocation failed at the insert and its upsert is still in the user's
\* record; another failed at the upsert.
C17_Witness ==
    /\ \E r \in Invocations :
        /\ r.failedAt = "insert"
        /\ Profile(r.body.user_id).assinatura_id = r.bill
    /\ \E r \in Invocations : r.failedAt = "upsert"

\* ---- C18
\* The invocations that have finished as x did, whatever became of the fetch
\* of the page (x has fetch = "none").
AnsweredAs(x) ==
    NumberIn({q \in Invocations : Done(q) /\ [q EXCEPT !.fetch = "none"] = x})

\* Every step of the invocation r succeeded: the body parsed, the provider
\* created a billing instance, the upsert and the insert were committed.
AllStepsSucceeded(r) ==
    /\ r.body.parsable
    /\ r.failedAt = "none"
    /\ r.providerStatus = 200 /\ r.bill # NoBill
    /\ r.dbWrites = 2
    /\ <<r.body.user_id, r.bill>> \in upserts
    /\ PaymentsOf(r.bill) # {}

\* C18: a POST invocation has a response exactly when it has finished, and
\* once it has finished neither it nor its response ever changes; the response
\* is 200 with success = true if and only if the body parsed and the provider
\* call, the upsert and the insert all succeeded, and it is 500 without
\* success in every other case, an unparsable body and an exception while the
\* payload is built included.
C18_OneResponse ==
    /\ [](\A r \in Invocations :
            IsPost(r) =>
                /\ Done(r) <=> r.response # NoResponse
                /\ Done(r) =>
                    /\ r.response.status \in {200, 500}
                    /\ (r.response.status = 200 /\ r.response.success)
                            <=> AllStepsSucceeded(r)
                    /\ ~AllStepsSucceeded(r) =>
                            r.response.status = 500 /\ ~r.response.success
                    /\ r.failedAt \in {"parse", "build"} => r.response.status = 500)
    /\ [][\A r \in Invocations :
            (IsPost(r) /\ Done(r)) =>
                LET x == [r EXCEPT !.fetch = "none"]
                IN  AnsweredAs(x)' >= AnsweredAs(x)]_vars

\* A POST invocation has answered 200 after all its steps succeeded, and
\* another has answered 500 because its body had no user_data.
C18_Witness ==
    /\ \E r \in Invocations :
        IsPost(r) /\ Done(r) /\ AllStepsSucceeded(r) /\ r.response.status = 200
    /\ \E r \in Invocations :
        IsPost(r) /\ Done(r) /\ r.failedAt = "build" /\ r.response.status = 500

\* ---- C19
\* C19: when every request of the page eventually settles, isLoading, once
\* true, eventually is false again; and every step in which a request settles,
\* by a 200 that redirects, by any other response or by a rejection, leaves
\* isLoading false and the subscribe button enabled.
C19_LoadingEnds ==
    /\ isLoading ~> ~isLoading
    /\ [][SettledRequests' # SettledRequests =>
            ~isLoading' /\ ~ButtonDisabled']_vars

\* Two attempts have completed, the first failed and the second redirected
\* to the payment page, and the button is enabled again.
C19_Witness ==
    /\ SettledRequests = 2
    /\ toasts = 1
    /\ href # PageUrl
    /\ ~isLoading /\ ~ButtonDisabled

====
